---- MODULE Spec2Model ----
(***************************************************************************)
(* A model of src/src/App.tsx: the weather dashboard component App, its    *)
(* search-suggestions effect, the loader load(), the favorites handlers    *)
(* addFav/removeFav, pick, useMyLocation and the label mapper aqiLabel.    *)
(*                                                                         *)
(* Strings whose characters the code inspects (names, queries) are         *)
(* sequences of character codes, so that toLowerCase, trim and includes    *)
(* are computed.  Strings that are only stored and shown (the error        *)
(* messages, the css classes) are TLA+ strings.  An optional value         *)
(* (T | null | undefined) is a sequence of length 0 or 1.  Coordinates are *)
(* integers: degrees times 10^4.  A timestamp is a natural number that     *)
(* stands for one non-empty ISO string; equal numbers are equal strings.   *)
(*                                                                         *)
(* A step is one task of the event loop: an event handler together with    *)
(* the render and the effects it triggers (React runs the effects of an    *)
(* update made in a click or input event before the event returns), or     *)
(* one promise or geolocation callback.                                    *)
(***************************************************************************)
EXTENDS Integers, Sequences, FiniteSets, TLC

(***************************************************************************)
(* Bounds of the model.                                                    *)
(***************************************************************************)
MaxReqs == 2
MaxLoads == 2
MaxGeo == 1
MaxAqi == 310
MaxResults == 10
MaxSeries == 4
MaxFresh == 3
StartFilled == 10
MaxRemoves == 1

(***************************************************************************)
(* Optional values.                                                        *)
(***************************************************************************)
None == <<>>
Some(x) == <<x>>

(***************************************************************************)
(* Strings as sequences of character codes.                                *)
(***************************************************************************)
Kathmandu == <<75, 97, 116, 104, 109, 97, 110, 100, 117>>
Pokhara == <<80, 111, 107, 104, 97, 114, 97>>
Lalitpur == <<76, 97, 108, 105, 116, 112, 117, 114>>
Biratnagar == <<66, 105, 114, 97, 116, 110, 97, 103, 97, 114>>
MyLocation == <<77, 121, 32, 76, 111, 99, 97, 116, 105, 111, 110>>

\* String.prototype.toLowerCase on the ASCII range
ToLowerChar(c) == IF c >= 65 /\ c <= 90 THEN c + 32 ELSE c
ToLowerCase(s) == [i \in 1..Len(s) |-> ToLowerChar(s[i])]

\* String.prototype.trim: white space is stripped from both ends
IsSpace(c) == c \in {9, 10, 13, 32}
RECURSIVE TrimStart(_)
TrimStart(s) ==
  IF s # <<>> /\ IsSpace(Head(s)) THEN TrimStart(Tail(s)) ELSE s
RECURSIVE TrimEnd(_)
TrimEnd(s) ==
  IF s # <<>> /\ IsSpace(s[Len(s)]) THEN TrimEnd(SubSeq(s, 1, Len(s) - 1)) ELSE s
Trim(s) == TrimEnd(TrimStart(s))

\* String.prototype.includes
Includes(s, sub) ==
  \E i \in 0..(Len(s) - Len(sub)) : SubSeq(s, i + 1, i + Len(sub)) = sub

(***************************************************************************)
(* DEFAULT_CITIES                                                          *)
(***************************************************************************)
Geo(n, la, lo) == [name |-> n, latitude |-> la, longitude |-> lo]

DEFAULT_CITIES ==
  << Geo(Kathmandu, 277172, 853240),
     Geo(Pokhara, 282096, 839856),
     Geo(Lalitpur, 276644, 853188),
     Geo(Biratnagar, 264550, 872705) >>

(***************************************************************************)
(* aqiLabel                                                                *)
(***************************************************************************)
Label(t, c, v) == [text |-> t, cls |-> c, value |-> v]

aqiLabelStrict(aqi) ==
  IF aqi = None THEN Label("-", "aqi aqi-na", None)
  ELSE LET v == aqi[1] IN
    IF v < 50 THEN Label("Good", "aqi aqi-good", aqi)
    ELSE IF v < 100 THEN Label("Moderate", "aqi aqi-mod", aqi)
    ELSE IF v < 150 THEN Label("USG", "aqi aqi-usg", aqi)
    ELSE IF v < 200 THEN Label("Unhealthy", "aqi aqi-unh", aqi)
    ELSE IF v < 300 THEN Label("Very Unhealthy", "aqi aqi-vunh", aqi)
    ELSE Label("Hazardous", "aqi aqi-haz", aqi)

\* text is the tier's word and value the number the template embeds in it:
\* `Good (${aqi})` is Label("Good", ..., Some(aqi))
aqiLabel(aqi) ==
  IF aqi = None THEN Label("-", "aqi aqi-na", None)
  ELSE LET v == aqi[1] IN
    IF v <= 50 THEN Label("Good", "aqi aqi-good", aqi)
    ELSE IF v <= 100 THEN Label("Moderate", "aqi aqi-mod", aqi)
    ELSE IF v <= 150 THEN Label("USG", "aqi aqi-usg", aqi)
    ELSE IF v <= 200 THEN Label("Unhealthy", "aqi aqi-unh", aqi)
    ELSE IF v <= 300 THEN Label("Very Unhealthy", "aqi aqi-vunh", aqi)
    ELSE Label("Hazardous", "aqi aqi-haz", aqi)

(***************************************************************************)
(* The merge of the search effect's response handler.                      *)
(***************************************************************************)
\* (j.results || []).map(...)
ResultList(j) == IF j.results = None THEN <<>> ELSE j.results[1]

\* DEFAULT_CITIES.filter(c => c.name.toLowerCase().includes(query.toLowerCase()))
RECURSIVE Filter(_, _)
Filter(s, q) ==
  IF s = <<>> THEN <<>>
  ELSE IF Includes(ToLowerCase(Head(s).name), ToLowerCase(q))
       THEN <<Head(s)>> \o Filter(Tail(s), q)
       ELSE Filter(Tail(s), q)
LocalMatch(q) == Filter(DEFAULT_CITIES, q)

\* the key under which the filter remembers an entry as seen
SeenKeyExact(c) == c.name
SeenKey(c) == ToLowerCase(c.name)

\* [...localMatch, ...list].filter(c => first occurrence of its key)
RECURSIVE Dedup(_, _)
Dedup(s, seen) ==
  IF s = <<>> THEN <<>>
  ELSE LET k == SeenKey(Head(s)) IN
    IF k \in seen THEN Dedup(Tail(s), seen)
    ELSE <<Head(s)>> \o Dedup(Tail(s), seen \cup {k})

\* Array.prototype.slice(0, n)
Slice0(s, n) == SubSeq(s, 1, IF Len(s) < n THEN Len(s) ELSE n)

SugLimit == 8
Merged(q, j) == Slice0(Dedup(LocalMatch(q) \o ResultList(j), {}), SugLimit)

(***************************************************************************)
(* The derivation of the current AQI in load.                              *)
(***************************************************************************)
\* Array.prototype.indexOf: the first index (from 0) holding x, or -1
RECURSIVE IndexFrom(_, _, _)
IndexFrom(s, x, i) ==
  IF i >= Len(s) THEN -1
  ELSE IF s[i + 1] = x THEN i
  ELSE IndexFrom(s, x, i + 1)
IndexOf(s, x) == IndexFrom(s, x, 0)

\* the nearest position instead of the exact one
AqiAtNearest(us, idx) ==
  IF us = <<>> THEN None
  ELSE IF idx < 0 THEN us[1]
  ELSE IF idx < Len(us) THEN us[idx + 1] ELSE us[Len(us)]

\* if (idx >= 0) aqi = a.hourly.us_aqi[idx] ?? null
AqiAt(us, idx) ==
  IF idx >= 0 /\ idx < Len(us) THEN us[idx + 1] ELSE None

DeriveAqi(w, a) ==
  IF a.hourly # None /\ a.hourly[1].time # None /\ w.current # None
       /\ a.hourly[1].us_aqi # None
  THEN AqiAt(a.hourly[1].us_aqi[1], IndexOf(a.hourly[1].time[1], w.current[1].time))
  ELSE None

(***************************************************************************)
(* The state of App.                                                       *)
(*   query, sugs, loading, err, city, fav : the useState cells             *)
(*   abortRef  : abortRef.current, the id of a search request's controller *)
(*   cleanup   : the controller the last run of the search effect returned *)
(*               a cleanup for                                             *)
(*   reqs      : the search requests issued so far, by id                  *)
(*   loads     : the invocations of load so far, in the order they started *)
(*   geo       : the number of pending getCurrentPosition requests         *)
(*   chipValue, chip : the value handed to AQIChip and what it rendered    *)
(*   nFresh, nRemoves : how many distinct new locations were loaded and    *)
(*               how many removals were made (they cap the exploration)    *)
(*   last      : the last step, when it was addFav, removeFav (with the    *)
(*               entry clicked), the response handler of the search (with  *)
(*               the request and the body), useMyLocation or one of its    *)
(*               callbacks, or the start of a session (with what the read  *)
(*               of the storage met); None after other steps               *)
(*   stored    : the item of localStorage under the key "wx:fav": None     *)
(*               when there is none, else its text                         *)
(*   canWrite  : whether localStorage.setItem succeeds in this session (it *)
(*               throws when the storage is full or denied)                *)
(***************************************************************************)
VARIABLES query, sugs, loading, err, city, fav, abortRef, cleanup, reqs,
          loads, geo, chipValue, chip, nFresh, nRemoves, last, stored, canWrite

vars == <<query, sugs, loading, err, city, fav, abortRef, cleanup, reqs,
          loads, geo, chipValue, chip, nFresh, nRemoves, last, stored, canWrite>>

searchVars == <<query, sugs, abortRef, cleanup, reqs>>
loadVars == <<loading, err, city, loads>>
geoVars == <<geo>>
chipVars == <<chipValue, chip>>
capVars == <<nFresh, nRemoves>>
storeVars == <<stored, canWrite>>

ErrFetch == "Could not fetch data. Check your internet connection."
ErrGeoNA == "Geolocation not available in this browser."
ErrDenied == "Location permission denied."

(***************************************************************************)
(* The view: the populated grid is rendered when city && !loading, and it  *)
(* reads city.weather.current.*, city.weather.hourly.time and              *)
(* city.weather.daily.time.  Reading a property of undefined throws in     *)
(* render, which unmounts the component: no handler runs afterwards and    *)
(* no later setState changes what is shown.                                *)
(***************************************************************************)
Renderable(w) == w.current # None /\ w.hourly /\ w.daily
Mounted == ~(city # None /\ ~loading /\ ~Renderable(city[1].weather))

(***************************************************************************)
(* Search suggestions effect                                               *)
(***************************************************************************)
NoAbort(rs, id) == rs

\* controller.abort(): the signal is aborted, and a fetch or a body read that
\* is still pending on it rejects (the .catch swallows the rejection)
Abort(rs, id) ==
  [rs EXCEPT ![id] = [@ EXCEPT !.aborted = TRUE,
                              !.st = IF @ \in {"fetch", "json"} THEN "aborted" ELSE @]]

AbortOpt(rs, ref) == IF ref = None THEN rs ELSE Abort(rs, ref[1])

NewReq(q) == [query |-> q, aborted |-> FALSE, st |-> "fetch"]

\* the length of the query as typed decides, not that of the trimmed query
EffectOnQueryUntrimmed(q) ==
  LET cleaned == AbortOpt(reqs, cleanup) IN
  IF Len(q) < 2
  THEN [sugs |-> <<>>, abortRef |-> abortRef, cleanup |-> None, reqs |-> cleaned]
  ELSE [sugs |-> sugs,
        abortRef |-> Some(Len(reqs) + 1),
        cleanup |-> Some(Len(reqs) + 1),
        reqs |-> Append(AbortOpt(cleaned, abortRef), NewReq(q))]

\* a short query leaves the request in flight as it is
EffectOnQueryNoCleanup(q) ==
  IF Len(Trim(q)) < 2
  THEN [sugs |-> <<>>, abortRef |-> abortRef, cleanup |-> None, reqs |-> reqs]
  ELSE [sugs |-> sugs,
        abortRef |-> Some(Len(reqs) + 1),
        cleanup |-> Some(Len(reqs) + 1),
        reqs |-> Append(AbortOpt(AbortOpt(reqs, cleanup), abortRef), NewReq(q))]

\* One change of query: the previous run's cleanup, then the effect body.
\* The new values of the search cells, as a record.
EffectOnQuery(q) ==
  LET cleaned == AbortOpt(reqs, cleanup) IN
  IF Len(Trim(q)) < 2
  THEN [sugs |-> <<>>, abortRef |-> abortRef, cleanup |-> None, reqs |-> cleaned]
  ELSE [sugs |-> sugs,
        abortRef |-> Some(Len(reqs) + 1),
        cleanup |-> Some(Len(reqs) + 1),
        reqs |-> Append(AbortOpt(cleaned, abortRef), NewReq(q))]

\* onChange of the input: setQuery(e.target.value) and the effect it triggers
SetQuery(q) ==
  /\ Mounted
  /\ q # query
  /\ Len(Trim(q)) >= 2 => Len(reqs) < MaxReqs
  /\ LET e == EffectOnQuery(q) IN
       /\ query' = q
       /\ sugs' = e.sugs
       /\ abortRef' = e.abortRef
       /\ cleanup' = e.cleanup
       /\ reqs' = e.reqs
  /\ last' = None
  /\ UNCHANGED <<loadVars, fav, geoVars, chipVars, capVars, storeVars>>

\* fetch(url, {signal}) resolves with the response
SearchFetchOk(id) ==
  /\ Mounted
  /\ reqs[id].st = "fetch"
  /\ reqs' = [reqs EXCEPT ![id].st = "json"]
  /\ last' = None
  /\ UNCHANGED <<query, sugs, abortRef, cleanup, loadVars, fav, geoVars, chipVars, capVars, storeVars>>

\* fetch rejects (service unreachable), or r.json() rejects, or the handler
\* throws on a body without properties: .catch(() => {})
SearchFail(id) ==
  /\ Mounted
  /\ reqs[id].st \in {"fetch", "json"}
  /\ reqs' = [reqs EXCEPT ![id].st = "failed"]
  /\ last' = None
  /\ UNCHANGED <<query, sugs, abortRef, cleanup, loadVars, fav, geoVars, chipVars, capVars, storeVars>>

\* r.json() resolves with j and the handler sets the suggestions
SearchApply(id, j) ==
  /\ Mounted
  /\ reqs[id].st = "json"
  /\ sugs' = Merged(reqs[id].query, j)
  /\ reqs' = [reqs EXCEPT ![id].st = "applied"]
  /\ last' = <<"searchApply", id, j>>
  /\ UNCHANGED <<query, abortRef, cleanup, loadVars, fav, geoVars, chipVars, capVars, storeVars>>

(***************************************************************************)
(* load                                                                    *)
(***************************************************************************)
\* one invocation of load: pc is where it stands (the forecast fetch, the
\* air-quality fetch, or its end), w the forecast body it holds, air whether it
\* has issued the air-quality request
NewLoad(n, la, lo) ==
  [name |-> n, lat |-> la, lon |-> lo, pc |-> "forecast", w |-> None, air |-> FALSE]

City(n, la, lo, w, a) ==
  [name |-> n, lat |-> la, lon |-> lo, weather |-> w, air |-> a, aqi |-> DeriveAqi(w, a)]

\* load up to its first await: setErr(""), setLoading(true), the forecast fetch
LoadStart(n, la, lo) ==
  /\ Len(loads) < MaxLoads
  /\ err' = ""
  /\ loading' = TRUE
  /\ loads' = Append(loads, NewLoad(n, la, lo))

\* click on the favorite fav[i]
LoadFavorite(i) ==
  /\ Mounted
  /\ i \in 1..Len(fav)
  /\ LoadStart(fav[i].name, fav[i].latitude, fav[i].longitude)
  /\ last' = None
  /\ UNCHANGED <<city, searchVars, fav, geoVars, chipVars, capVars, storeVars>>

\* the forecast fetch resolved and its body parsed to w: the air-quality fetch
ForecastOk(id, w) ==
  /\ Mounted
  /\ loads[id].pc = "forecast"
  /\ loads' = [loads EXCEPT ![id].pc = "air", ![id].w = Some(w), ![id].air = TRUE]
  /\ last' = None
  /\ UNCHANGED <<loading, err, city, searchVars, fav, geoVars, chipVars, capVars, storeVars>>

LoadFailClearing(id) ==
  /\ Mounted
  /\ loads[id].pc \in {"forecast", "air"}
  /\ err' = ErrFetch
  /\ loading' = FALSE
  /\ city' = None
  /\ loads' = [loads EXCEPT ![id].pc = "failed", ![id].w = None]
  /\ last' = None
  /\ UNCHANGED <<searchVars, fav, geoVars, chipVars, capVars, storeVars>>

\* either fetch rejected or its body is not JSON: catch, then finally
LoadFail(id) ==
  /\ Mounted
  /\ loads[id].pc \in {"forecast", "air"}
  /\ err' = ErrFetch
  /\ loading' = FALSE
  /\ loads' = [loads EXCEPT ![id].pc = "failed", ![id].w = None]
  /\ last' = None
  /\ UNCHANGED <<city, searchVars, fav, geoVars, chipVars, capVars, storeVars>>

\* the air-quality body parsed to a: derive the AQI, setCity, then finally
AirOk(id, a) ==
  /\ Mounted
  /\ loads[id].pc = "air"
  /\ LET l == loads[id]
         c == City(l.name, l.lat, l.lon, l.w[1], a) IN
       /\ city' = Some(c)
       /\ loads' = [loads EXCEPT ![id].pc = "ok", ![id].w = None]
  /\ loading' = FALSE
  /\ last' = None
  /\ UNCHANGED <<err, searchVars, fav, geoVars, chipVars, capVars, storeVars>>

(***************************************************************************)
(* pick                                                                    *)
(***************************************************************************)
Pick(i) ==
  /\ Mounted
  /\ i \in 1..Len(sugs)
  /\ LoadStart(sugs[i].name, sugs[i].latitude, sugs[i].longitude)
  /\ LET e == IF query = <<>>
              THEN [abortRef |-> abortRef, cleanup |-> cleanup, reqs |-> reqs]
              ELSE EffectOnQuery(<<>>) IN
       /\ query' = <<>>
       /\ sugs' = <<>>
       /\ abortRef' = e.abortRef
       /\ cleanup' = e.cleanup
       /\ reqs' = e.reqs
  /\ last' = None
  /\ UNCHANGED <<city, fav, geoVars, chipVars, capVars, storeVars>>

\* load run from its call to its end with both fetches resolving to w and a
\* and no other handler in between: LoadStart, ForecastOk and AirOk in one
LoadDone(n, la, lo, w, a) ==
  /\ Mounted
  /\ err' = ""
  /\ loading' = FALSE
  /\ city' = Some(City(n, la, lo, w, a))
  /\ last' = None
  /\ UNCHANGED <<loads, searchVars, fav, geoVars, chipVars, nRemoves, storeVars>>

(***************************************************************************)
(* useLocal: the favorites in localStorage                                 *)
(*                                                                         *)
(* A stored text is the sequence of its JSON tokens; "" is the empty       *)
(* sequence.  A token is a bracket, a brace, a comma, a property key with  *)
(* its colon, a string (its code points) or a number.  The texts are those *)
(* of arrays of flat objects, of one flat object and of one scalar.        *)
(***************************************************************************)
Tok(k, v) == [k |-> k, v |-> v]
LBrack == Tok("[", <<>>)
RBrack == Tok("]", <<>>)
LBrace == Tok("{", <<>>)
RBrace == Tok("}", <<>>)
Comma == Tok(",", <<>>)
Key(name) == Tok("key", name)
Str(s) == Tok("str", s)
Num(n) == Tok("num", n)

\* the properties of a GeoResult, in the order addFav writes them
KeyOrder == <<"name", "latitude", "longitude">>

RECURSIVE Join(_)
Join(parts) ==
  IF parts = <<>> THEN <<>>
  ELSE IF Len(parts) = 1 THEN Head(parts)
  ELSE Head(parts) \o <<Comma>> \o Join(Tail(parts))

\* JSON.stringify of one entry: its own properties; the name is a string and
\* the coordinates are numbers
StringifyEntry(e) ==
  LET keys == SelectSeq(KeyOrder, LAMBDA k : k \in DOMAIN e)
      Field(k) == <<Key(k), IF k = "name" THEN Str(e[k]) ELSE Num(e[k])>> IN
  <<LBrace>> \o Join([i \in 1..Len(keys) |-> Field(keys[i])]) \o <<RBrace>>

StringifyFirst(list) ==
  <<LBrack>> \o (IF list = <<>> THEN <<>> ELSE StringifyEntry(list[1])) \o <<RBrack>>

\* JSON.stringify(val) of a list of entries
Stringify(list) ==
  <<LBrack>> \o Join([i \in 1..Len(list) |-> StringifyEntry(list[i])]) \o <<RBrack>>

\* JSON.parse throws a SyntaxError
SyntaxError == [ok |-> FALSE, pos |-> 0, val |-> <<>>]
Parsed(p, v) == [ok |-> TRUE, pos |-> p, val |-> v]
KindAt(t, p) == IF p <= Len(t) THEN t[p].k ELSE "end"

\* the properties of an object from position p on, after those in obj; a
\* property that occurs twice keeps its last value
RECURSIVE ParseFields(_, _, _)
ParseFields(t, p, obj) ==
  IF KindAt(t, p) # "key" \/ KindAt(t, p + 1) \notin {"str", "num"} THEN SyntaxError
  ELSE LET o == (t[p].v :> t[p + 1].v) @@ obj IN
       IF KindAt(t, p + 2) = "}" THEN Parsed(p + 3, o)
       ELSE IF KindAt(t, p + 2) = "," THEN ParseFields(t, p + 3, o)
       ELSE SyntaxError

\* an object that starts at p (t[p] is its brace)
ParseObject(t, p) ==
  IF KindAt(t, p + 1) = "}" THEN Parsed(p + 2, <<>>)
  ELSE ParseFields(t, p + 1, <<>>)

\* the elements of an array from position p on, after those in acc
RECURSIVE ParseItems(_, _, _)
ParseItems(t, p, acc) ==
  IF KindAt(t, p) # "{" THEN SyntaxError
  ELSE LET r == ParseObject(t, p) IN
       IF ~r.ok THEN SyntaxError
       ELSE IF KindAt(t, r.pos) = "]" THEN Parsed(r.pos + 1, Append(acc, r.val))
       ELSE IF KindAt(t, r.pos) = "," THEN ParseItems(t, r.pos + 1, Append(acc, r.val))
       ELSE SyntaxError

ParseValue(t) ==
  IF KindAt(t, 1) = "[" THEN
    IF KindAt(t, 2) = "]" THEN Parsed(3, <<>>) ELSE ParseItems(t, 2, <<>>)
  ELSE IF KindAt(t, 1) = "{" THEN ParseObject(t, 1)
  ELSE IF KindAt(t, 1) \in {"str", "num"} THEN Parsed(2, t[1].v)
  ELSE SyntaxError

\* JSON.parse(raw): the value of the whole text, or a SyntaxError
Parse(t) ==
  LET r == ParseValue(t) IN
  IF r.ok /\ r.pos = Len(t) + 1 THEN r ELSE SyntaxError

\* the initial value of useLocal's state: readable is whether getItem returns
\* (it throws when the storage is denied), st the stored item
useLocal(readable, st, initial) ==
  IF ~readable THEN initial
  ELSE IF st = None \/ st[1] = <<>> THEN initial
  ELSE LET r == Parse(st[1]) IN
       IF r.ok THEN r.val ELSE initial

\* the effect of useLocal on [key, val]: setItem(key, JSON.stringify(val)),
\* which leaves the storage as it is when it throws
Persist(list) == IF canWrite THEN Some(Stringify(list)) ELSE stored

(***************************************************************************)
(* Favorites                                                               *)
(***************************************************************************)
SameNameExact(f, c) == f.name = c.name

\* f.name.toLowerCase() === city.name.toLowerCase()
SameName(f, c) == ToLowerCase(f.name) = ToLowerCase(c.name)

FavLimit == 12

PrependUncut(c, fs) == <<Geo(c.name, c.lat, c.lon)>> \o fs

\* [{name, latitude, longitude}, ...fav].slice(0, 12)
Prepend(c, fs) ==
  Slice0(<<Geo(c.name, c.lat, c.lon)>> \o fs, FavLimit)

AfterAddFavAlways ==
  IF city = None THEN fav ELSE Prepend(city[1], fav)

\* the list addFav leaves: the same list when there is no city or a favorite
\* of the city's name, the city in front of it otherwise
AfterAddFav ==
  IF city = None THEN fav
  ELSE IF \E i \in 1..Len(fav) : SameName(fav[i], city[1]) THEN fav
  ELSE Prepend(city[1], fav)

\* click on the Favorite button, which is part of the populated grid and so
\* rendered when city && !loading
AddFav ==
  /\ Mounted
  /\ city # None /\ ~loading
  /\ fav' = AfterAddFav
  /\ stored' = IF fav' = fav THEN stored ELSE Persist(fav')
  /\ last' = <<"addFav">>
  /\ UNCHANGED <<city, loading, err, loads, searchVars, geoVars, chipVars, capVars, canWrite>>

WithoutAnyCase(fs, n) ==
  SelectSeq(fs, LAMBDA f : ToLowerCase(f.name) # ToLowerCase(n))

\* fav.filter(f => f.name !== name)
RECURSIVE Without(_, _)
Without(fs, n) ==
  IF fs = <<>> THEN <<>>
  ELSE IF Head(fs).name # n THEN <<Head(fs)>> \o Without(Tail(fs), n)
  ELSE Without(Tail(fs), n)

\* click on the x of the favorite fav[i]
RemoveFav(i) ==
  /\ Mounted
  /\ i \in 1..Len(fav)
  /\ fav' = Without(fav, fav[i].name)
  /\ stored' = Persist(fav')
  /\ last' = <<"removeFav", fav[i]>>
  /\ UNCHANGED <<city, loading, err, loads, searchVars, geoVars, chipVars, nFresh, canWrite>>

(***************************************************************************)
(* useMyLocation                                                           *)
(***************************************************************************)
\* avail: whether navigator.geolocation exists
UseMyLocation(avail) ==
  /\ Mounted
  /\ IF ~avail
     THEN /\ err' = ErrGeoNA
          /\ UNCHANGED <<loading, geo>>
     ELSE /\ geo < MaxGeo
          /\ loading' = TRUE
          /\ geo' = geo + 1
          /\ UNCHANGED err
  /\ last' = <<"useMyLocation", avail>>
  /\ UNCHANGED <<city, loads, searchVars, fav, chipVars, capVars, storeVars>>

\* the success callback: load(pos.coords.latitude, pos.coords.longitude, "My Location")
GeoSuccess(pos) ==
  /\ Mounted
  /\ geo > 0
  /\ geo' = geo - 1
  /\ LoadStart(MyLocation, pos[1], pos[2])
  /\ last' = <<"geoSuccess", pos>>
  /\ UNCHANGED <<city, searchVars, fav, chipVars, capVars, storeVars>>

GeoErrorStillLoading ==
  /\ Mounted
  /\ geo > 0
  /\ geo' = geo - 1
  /\ err' = ErrDenied
  /\ last' = <<"geoError">>
  /\ UNCHANGED <<loading, city, loads, searchVars, fav, chipVars, capVars, storeVars>>

\* the error callback (denied, or the 10 s timeout)
GeoError ==
  /\ Mounted
  /\ geo > 0
  /\ geo' = geo - 1
  /\ loading' = FALSE
  /\ err' = ErrDenied
  /\ last' = <<"geoError">>
  /\ UNCHANGED <<city, loads, searchVars, fav, chipVars, capVars, storeVars>>

(***************************************************************************)
(* AQIChip                                                                 *)
(***************************************************************************)
AQIChip ==
  /\ chip' = Some(aqiLabel(chipValue))
  /\ last' = None
  /\ UNCHANGED <<chipValue, loadVars, searchVars, fav, geoVars, capVars, storeVars>>

(***************************************************************************)
(* Inputs                                                                  *)
(***************************************************************************)
\* what the user types: "", "a " (one character when trimmed), "Kathm", "ar"
QKathm == <<75, 97, 116, 104, 109>>
QAr == <<97, 114>>
Queries == { <<>>, <<97, 32>>, QKathm, QAr }

\* names the geocoding service returns
Patan == <<80, 97, 116, 97, 110>>
Bodies ==
  { [results |-> None],
    [results |-> Some(<< Geo(ToLowerCase(Pokhara), 282000, 839000),
                         Geo(Patan, 276700, 853200) >>)] }

\* forecast bodies: a forecast whose current sample is at time t, and an API
\* error body ({"error": true, "reason": ...}), which has none of the objects
Forecast(t) == [current |-> Some([time |-> t]), hourly |-> TRUE, daily |-> TRUE]
ErrorBody == [current |-> None, hourly |-> FALSE, daily |-> FALSE]
ForecastBodies == { Forecast(12), Forecast(13), ErrorBody }

\* air-quality bodies
Air(ts, us) == [hourly |-> Some([time |-> ts, us_aqi |-> us])]
NoHourly == [hourly |-> None]
AirBodies == { NoHourly, Air(Some(<<11, 12>>), Some(<<Some(57), Some(42)>>)) }

Positions == { <<277000, 853000>> }

(***************************************************************************)
(* The application: the state after the first render and its effects, and  *)
(* one step per handler or callback.                                       *)
(***************************************************************************)
Init ==
  /\ query = <<>>
  /\ sugs = <<>>
  /\ loading = FALSE
  /\ err = ""
  /\ city = None
  /\ fav = <<DEFAULT_CITIES[1]>>
  /\ abortRef = None
  /\ cleanup = None
  /\ reqs = <<>>
  /\ loads = <<>>
  /\ geo = 0
  /\ chipValue = None
  /\ chip = None
  /\ nFresh = 0
  /\ nRemoves = 0
  /\ last = None
  /\ canWrite = TRUE
  /\ stored = Some(Stringify(fav))

(***************************************************************************)
(* The application is checked one part at a time.  Each specification      *)
(* starts from the state after construction and takes the steps of one     *)
(* group of handlers and callbacks; the other handlers do not run.         *)
(***************************************************************************)

\* Search: typing, the geocoding request's callbacks, picking a suggestion
\* and the load that pick starts
NextSearch ==
  \/ \E q \in Queries : SetQuery(q)
  \/ \E id \in 1..Len(reqs) : SearchFetchOk(id)
  \/ \E id \in 1..Len(reqs) : SearchFail(id)
  \/ \E id \in 1..Len(reqs) : \E j \in Bodies : SearchApply(id, j)
  \/ \E i \in 1..Len(sugs) : Pick(i)
  \/ \E id \in 1..Len(loads) : ForecastOk(id, Forecast(12))
  \/ \E id \in 1..Len(loads) : LoadFail(id)
  \/ \E id \in 1..Len(loads) : AirOk(id, NoHourly)

SpecSearch == Init /\ [][NextSearch]_vars

\* Loading: the favorites' buttons, geolocation, the two fetches of load, and
\* the favorites handlers
NextLoad ==
  \/ \E i \in 1..Len(fav) : LoadFavorite(i)
  \/ \E id \in 1..Len(loads) : \E w \in ForecastBodies : ForecastOk(id, w)
  \/ \E id \in 1..Len(loads) : LoadFail(id)
  \/ \E id \in 1..Len(loads) : \E a \in AirBodies : AirOk(id, a)
  \/ \E avail \in BOOLEAN : UseMyLocation(avail)
  \/ \E pos \in Positions : GeoSuccess(pos)
  \/ GeoError
  \/ AddFav
  \/ \E i \in 1..Len(fav) : RemoveFav(i) /\ UNCHANGED nRemoves

SpecLoad == Init /\ [][NextLoad]_vars

\* Loading, with every fetch and every position request settling in the end:
\* a pending fetch of load id resolves or rejects, and a pending position
\* request calls one of its callbacks (the request is made with a timeout)
Settle(id) ==
  /\ id <= Len(loads)
  /\ \/ \E w \in ForecastBodies : ForecastOk(id, w)
     \/ LoadFail(id)
     \/ \E a \in AirBodies : AirOk(id, a)

GeoSettle == (\E pos \in Positions : GeoSuccess(pos)) \/ GeoError

SpecLoadFair ==
  /\ Init /\ [][NextLoad]_vars
  /\ \A id \in 1..MaxLoads : WF_vars(Settle(id))
  /\ WF_vars(GeoSettle)

\* The label mapper: AQIChip on any value
NextAqi == AQIChip

InitAqi ==
  /\ query = <<>> /\ sugs = <<>> /\ loading = FALSE /\ err = "" /\ city = None
  /\ fav = <<DEFAULT_CITIES[1]>> /\ abortRef = None /\ cleanup = None
  /\ reqs = <<>> /\ loads = <<>> /\ geo = 0 /\ chip = None
  /\ nFresh = 0 /\ nRemoves = 0 /\ last = None
  /\ canWrite = TRUE /\ stored = Some(Stringify(fav))
  /\ chipValue \in {None} \cup {Some(v) : v \in 0..MaxAqi}

SpecAqi == InitAqi /\ [][NextAqi]_vars

\* The AQI derivation: one load of the default favorite, over air-quality
\* bodies with every series of at most MaxSeries samples
SeqsUpTo(S, n) == UNION { [1..k -> S] : k \in 0..n }
Stamps == {11, 12}
AqiValues == {None, Some(0), Some(42)}
RichAirBodies ==
  { NoHourly }
    \cup { Air(ts, us) : ts \in {None} \cup {Some(x) : x \in SeqsUpTo(Stamps, MaxSeries)},
                         us \in {None} \cup {Some(x) : x \in SeqsUpTo(AqiValues, MaxSeries)} }

NextDerive ==
  \/ loads = <<>> /\ LoadFavorite(1)
  \/ \E id \in 1..Len(loads) : \E w \in ForecastBodies : ForecastOk(id, w)
  \/ \E id \in 1..Len(loads) : LoadFail(id)
  \/ \E id \in 1..Len(loads) :
       loads[id].pc = "air" /\ \E a \in RichAirBodies : AirOk(id, a)

SpecDerive == Init /\ [][NextDerive]_vars

\* The merge: the search alone, over the service's answers.  An answer is a
\* run of at most MaxResults entries of ServicePool, which repeats names of
\* the seed list and its own, in other letter case and at other coordinates.
Fresh(k) == <<67, 105, 116, 121, 64 + k>>
FreshGeo(k) == Geo(Fresh(k), 270000 + k, 850000 + k)
PATAN == <<80, 65, 84, 65, 78>>
ServicePool ==
  << Geo(ToLowerCase(Pokhara), 282000, 839000),
     Geo(Patan, 276700, 853200),
     Geo(Pokhara, 282096, 839856),
     Geo(PATAN, 255900, 851300) >>
  \o [k \in 1..7 |-> FreshGeo(k)]
RichBodies ==
  { [results |-> None], [results |-> Some(<<>>)] }
    \cup { [results |-> Some(SubSeq(ServicePool, i, j))] :
             i \in 1..Len(ServicePool),
             j \in 1..Len(ServicePool) }

NextMerge ==
  \/ \E q \in Queries : SetQuery(q)
  \/ \E id \in 1..Len(reqs) : SearchFetchOk(id)
  \/ \E id \in 1..Len(reqs) : SearchFail(id)
  \/ \E id \in 1..Len(reqs) :
       reqs[id].st = "json" /\ \E j \in RichBodies :
         Len(ResultList(j)) <= MaxResults /\ SearchApply(id, j)

SpecMerge == Init /\ [][NextMerge]_vars

\* Favorites: loads that complete, addFav and removeFav.  The session starts
\* with nothing stored (the default list) or with the list an earlier session
\* stored: StartFilled locations added one after the other to the default
\* list.  A load is of the next location not loaded before, of a favorite, of
\* a favorite under its name in lower case (as the service may return it), or
\* of the favorite removed in the last step.
LoadOf(g) == LoadDone(g.name, g.latitude, g.longitude, Forecast(12), NoHourly)

\* FreshGeo(k), ..., FreshGeo(1), then the default city
Chain(k) == [i \in 1..k |-> FreshGeo(k + 1 - i)] \o <<DEFAULT_CITIES[1]>>

InitFav ==
  /\ query = <<>> /\ sugs = <<>> /\ loading = FALSE /\ err = "" /\ city = None
  /\ abortRef = None /\ cleanup = None /\ reqs = <<>> /\ loads = <<>> /\ geo = 0
  /\ chipValue = None /\ chip = None
  /\ nFresh = 0 /\ nRemoves = 0 /\ last = None
  /\ fav \in { Chain(0), Chain(StartFilled) }
  /\ canWrite = TRUE /\ stored = Some(Stringify(fav))

\* the favorites the user clicks: the first, the second and the last
Clicked(fs) == {1, 2, Len(fs)} \cap (1..Len(fs))

NextFav ==
  \/ /\ nFresh < MaxFresh
     /\ LoadOf(FreshGeo(StartFilled + nFresh + 1))
     /\ nFresh' = nFresh + 1
  \/ \E i \in Clicked(fav) :
       LoadOf(fav[i]) /\ UNCHANGED nFresh
  \/ \E i \in Clicked(fav) :
       LoadOf([fav[i] EXCEPT !.name = ToLowerCase(@)]) /\ UNCHANGED nFresh
  \/ /\ last # None /\ last[1] = "removeFav"
     /\ LoadOf(last[2])
     /\ UNCHANGED nFresh
  \/ AddFav
  \/ \E i \in Clicked(fav) :
       /\ nRemoves < MaxRemoves
       /\ RemoveFav(i)
       /\ nRemoves' = nRemoves + 1

SpecFav == InitFav /\ [][NextFav]_vars

\* Storage: sessions of the app over what localStorage holds.  The first
\* session finds no item, an empty text, a text cut short, or the text of a
\* list: the empty list, a list stored by an earlier session, a list of objects
\* that have a name only, and a list that holds one name three times, once in
\* lower case.
CutShort == SubSeq(Stringify(Chain(1)), 1, Len(Stringify(Chain(1))) - 2)
NamesOnly == <<LBrack, LBrace, Key("name"), Str(Patan), RBrace, RBrack>>
Twins ==
  << Geo(Kathmandu, 277172, 853240),
     Geo(ToLowerCase(Kathmandu), 277000, 853000),
     Geo(Kathmandu, 277200, 853300) >>
StoredItems ==
  { None, Some(<<>>), Some(CutShort), Some(Stringify(<<>>)),
    Some(Stringify(Chain(2))), Some(NamesOnly), Some(Stringify(Twins)) }

\* the state after the first render and its effects, in a session that finds
\* item in the storage
InitStore ==
  /\ query = <<>> /\ sugs = <<>> /\ loading = FALSE /\ err = "" /\ city = None
  /\ abortRef = None /\ cleanup = None /\ reqs = <<>> /\ loads = <<>> /\ geo = 0
  /\ chipValue = None /\ chip = None
  /\ nFresh = 0 /\ nRemoves = 0
  /\ \E item \in StoredItems, readable \in BOOLEAN :
       /\ fav = useLocal(readable, item, <<DEFAULT_CITIES[1]>>)
       /\ last = <<"start", readable, item>>
       /\ canWrite \in BOOLEAN
       /\ stored = IF canWrite THEN Some(Stringify(fav)) ELSE item

\* the page is closed and opened again: every cell starts anew, the favorites
\* from the storage
Restart(readable, writable) ==
  /\ query' = <<>> /\ sugs' = <<>> /\ loading' = FALSE /\ err' = "" /\ city' = None
  /\ abortRef' = None /\ cleanup' = None /\ reqs' = <<>> /\ loads' = <<>> /\ geo' = 0
  /\ fav' = useLocal(readable, stored, <<DEFAULT_CITIES[1]>>)
  /\ last' = <<"start", readable, stored>>
  /\ canWrite' = writable
  /\ stored' = IF writable THEN Some(Stringify(fav')) ELSE stored
  /\ UNCHANGED <<chipVars, capVars>>

NextStore ==
  \/ \E readable \in BOOLEAN, writable \in BOOLEAN : Restart(readable, writable)
  \/ /\ nFresh < MaxFresh
     /\ LoadOf(FreshGeo(nFresh + 1))
     /\ nFresh' = nFresh + 1
  \/ AddFav
  \/ \E i \in 1..Len(fav) :
       /\ nRemoves < MaxRemoves
       /\ RemoveFav(i)
       /\ nRemoves' = nRemoves + 1

SpecStore == InitStore /\ [][NextStore]_vars

(***************************************************************************)
(* C7: aqiLabel maps an absent value to the unavailable tier, and a value  *)
(* v to the tier of its interval, upper bounds inclusive: v <= 50 good,    *)
(* 50 < v <= 100 moderate, 100 < v <= 150 USG, 150 < v <= 200 unhealthy,   *)
(* 200 < v <= 300 very unhealthy, v > 300 hazardous; the label of a value  *)
(* embeds the value.                                                       *)
(***************************************************************************)
TierOf(v) ==
  CHOOSE t \in {"aqi aqi-good", "aqi aqi-mod", "aqi aqi-usg", "aqi aqi-unh",
                "aqi aqi-vunh", "aqi aqi-haz"} :
    /\ t = "aqi aqi-good" <=> v <= 50
    /\ t = "aqi aqi-mod" <=> (50 < v /\ v <= 100)
    /\ t = "aqi aqi-usg" <=> (100 < v /\ v <= 150)
    /\ t = "aqi aqi-unh" <=> (150 < v /\ v <= 200)
    /\ t = "aqi aqi-vunh" <=> (200 < v /\ v <= 300)
    /\ t = "aqi aqi-haz" <=> v > 300

TierWord(t) ==
  CASE t = "aqi aqi-good" -> "Good"
    [] t = "aqi aqi-mod" -> "Moderate"
    [] t = "aqi aqi-usg" -> "USG"
    [] t = "aqi aqi-unh" -> "Unhealthy"
    [] t = "aqi aqi-vunh" -> "Very Unhealthy"
    [] t = "aqi aqi-haz" -> "Hazardous"

C7_TierByInterval ==
  chip # None =>
    IF chipValue = None
    THEN chip[1].cls = "aqi aqi-na" /\ chip[1].value = None
    ELSE /\ chip[1].cls = TierOf(chipValue[1])
         /\ chip[1].text = TierWord(TierOf(chipValue[1]))
         /\ chip[1].value = chipValue

\* a boundary value was labelled, and it took the lower tier
C7_Witness ==
  /\ chip # None
  /\ chipValue = Some(300)
  /\ chip[1].text = "Very Unhealthy"

(***************************************************************************)
(* C6: after a load whose two fetches succeeded, the stored AQI is the     *)
(* us_aqi value at the first index whose air-quality timestamp equals the  *)
(* forecast's current timestamp, when the series, the index array and a    *)
(* value at that index exist; otherwise it is unavailable.                 *)
(***************************************************************************)
Min(S) == CHOOSE x \in S : \A y \in S : x <= y

ExactMatches(w, a) ==
  IF a.hourly = None \/ w.current = None THEN {}
  ELSE IF a.hourly[1].time = None THEN {}
  ELSE { i \in 1..Len(a.hourly[1].time[1]) : a.hourly[1].time[1][i] = w.current[1].time }

ExpectedAqi(w, a) ==
  LET m == ExactMatches(w, a) IN
  IF m = {} THEN None
  ELSE IF a.hourly[1].us_aqi = None THEN None
  ELSE IF Min(m) > Len(a.hourly[1].us_aqi[1]) THEN None
  ELSE a.hourly[1].us_aqi[1][Min(m)]

C6_AqiExactMatch ==
  city # None => city[1].aqi = ExpectedAqi(city[1].weather, city[1].air)

\* the spec's example: the timestamp is found at index 3, where us_aqi is 42
C6_Witness ==
  /\ city # None
  /\ loads # <<>> /\ loads[1].pc = "ok"
  /\ city[1].weather = Forecast(12)
  /\ city[1].air.hourly # None
  /\ city[1].air.hourly[1].time = Some(<<11, 11, 11, 12>>)
  /\ city[1].air.hourly[1].us_aqi = Some(<<Some(0), None, Some(0), Some(42)>>)
  /\ city[1].aqi = Some(42)

(***************************************************************************)
(* C10: when a geocoding response is applied, the candidate list is the    *)
(* seed matches of the request's query followed by the service's results,  *)
(* without the entries whose lowercase name occurred earlier, cut to the   *)
(* first 8; so the list never holds two entries of the same lowercase name *)
(* and never more than 8 entries.                                          *)
(***************************************************************************)
\* the entries of s at the positions in idx, in their order
Rank(idx, k) == Cardinality({m \in idx : m <= k})
Select(s, idx) ==
  [n \in 1..Cardinality(idx) |-> s[CHOOSE k \in idx : Rank(idx, k) = n]]

SeedMatches(q) ==
  Select(DEFAULT_CITIES,
         { k \in 1..Len(DEFAULT_CITIES) :
             Includes(ToLowerCase(DEFAULT_CITIES[k].name), ToLowerCase(q)) })

FirstOccurrences(s) ==
  { k \in 1..Len(s) :
      \A m \in 1..(k - 1) : ToLowerCase(s[m].name) # ToLowerCase(s[k].name) }

ExpectedSugs(q, results) ==
  LET cat == SeedMatches(q) \o results
      kept == Select(cat, FirstOccurrences(cat))
  IN  [n \in 1..(IF Len(kept) > 8 THEN 8 ELSE Len(kept)) |-> kept[n]]

NoTwoSameName(s) ==
  \A m, k \in 1..Len(s) : m # k => ToLowerCase(s[m].name) # ToLowerCase(s[k].name)

C10_Applied ==
  last # None /\ last[1] = "searchApply" =>
    sugs = ExpectedSugs(reqs[last[2]].query,
                        IF last[3].results = None THEN <<>> ELSE last[3].results[1])

C10_MergedList ==
  /\ C10_Applied
  /\ NoTwoSameName(sugs)
  /\ Len(sugs) <= 8

\* the seed list and the service both gave Pokhara (twice, in two cases) and
\* there were more than 8 distinct names: one Pokhara, the seed's, and 8 entries
C10_Witness ==
  /\ last # None /\ last[1] = "searchApply"
  /\ reqs[last[2]].query = QAr
  /\ last[3].results = Some(SubSeq(ServicePool, 1, 10))
  /\ Len(sugs) = 8
  /\ sugs[1] = DEFAULT_CITIES[2]
  /\ Cardinality({k \in 1..Len(sugs) : ToLowerCase(sugs[k].name) = ToLowerCase(Pokhara)}) = 1

(***************************************************************************)
(* C8: addFav changes nothing when the favorites hold an entry whose name  *)
(* equals the city's name without regard to letter case, or when no city   *)
(* is loaded: the list keeps its length, its entries and their order.      *)
(***************************************************************************)
AddFavRan == last' # None /\ last'[1] = "addFav"

PresentIgnoringCase ==
  city # None /\ \E i \in 1..Len(fav) : ToLowerCase(fav[i].name) = ToLowerCase(city[1].name)

C8_AddPresentNoOp ==
  [][AddFavRan /\ (city = None \/ PresentIgnoringCase) => fav' = fav]_vars

\* addFav ran on a city that the favorites hold only under another letter
\* case (had it been added, they would hold its very name)
C8_Witness ==
  /\ last # None /\ last[1] = "addFav"
  /\ PresentIgnoringCase
  /\ \A i \in 1..Len(fav) : fav[i].name # city[1].name

(***************************************************************************)
(* C9: addFav of a city that is not among the favorites puts it in front   *)
(* of the previous entries, which keep their order, and cuts the list to   *)
(* its first 12 entries; the list never has more than 12 entries, and the  *)
(* 13th entry added drops the last one.  removeFav keeps the order of the   *)
(* entries it leaves, so the list stays in the order of the additions.     *)
(***************************************************************************)
C9_Prepended ==
  /\ Len(fav') = (IF Len(fav) < 12 THEN Len(fav) + 1 ELSE 12)
  /\ fav'[1] = [name |-> city[1].name, latitude |-> city[1].lat, longitude |-> city[1].lon]
  /\ \A i \in 2..Len(fav') : fav'[i] = fav[i - 1]

RemoveFavRan == last' # None /\ last'[1] = "removeFav"

\* a is b without some of its entries
RECURSIVE IsSubseq(_, _)
IsSubseq(a, b) ==
  IF a = <<>> THEN TRUE
  ELSE IF b = <<>> THEN FALSE
  ELSE IF Head(a) = Head(b) THEN IsSubseq(Tail(a), Tail(b))
  ELSE IsSubseq(a, Tail(b))

C9_OrderKept == IsSubseq(fav', fav)

C9_AddPrependsCut ==
  /\ [](Len(fav) <= 12)
  /\ [][/\ AddFavRan /\ city # None /\ ~PresentIgnoringCase => C9_Prepended
        /\ RemoveFavRan => C9_OrderKept]_vars

\* two locations were added to the stored list of 11: the second was the 13th
\* entry, and the default city, the oldest, is gone though nothing was removed
C9_Witness ==
  /\ last # None /\ last[1] = "addFav"
  /\ nRemoves = 0
  /\ Len(fav) = 12
  /\ fav[1] = FreshGeo(StartFilled + 2)
  /\ fav[2] = FreshGeo(StartFilled + 1)
  /\ fav[12] = FreshGeo(1)

(***************************************************************************)
(* C1: a geocoding response is applied only if it answers the latest       *)
(* request, which is the request of the current query: the response to an  *)
(* earlier query never sets the candidate list once the query has changed, *)
(* in whatever order the responses arrive.                                 *)
(***************************************************************************)
ApplyRan == last # None /\ last[1] = "searchApply"

C1_OnlyLatestApplied ==
  ApplyRan =>
    /\ last[2] = Len(reqs)
    /\ reqs[last[2]].query = query
    /\ cleanup = Some(last[2])

\* the first request was still in flight when the query changed; the second
\* request's response is the one applied
C1_Witness ==
  /\ ApplyRan
  /\ last[2] = 2
  /\ reqs[1].st = "aborted"
  /\ reqs[1].query # reqs[2].query

(***************************************************************************)
(* C5: when the geocoding request of a query of at least 2 trimmed         *)
(* characters fails because the service is unreachable, the candidate list *)
(* becomes the seed matches of that query, and the error message is left   *)
(* as it is.                                                               *)
(***************************************************************************)
C5_FailureFallsBackToSeeds ==
  [][\A id \in 1..Len(reqs) :
       reqs[id].st = "fetch" /\ reqs'[id].st = "failed"
         => sugs' = SeedMatches(reqs[id].query) /\ err' = err]_vars

(***************************************************************************)
(* C2: when two invocations of load overlap, the city is the result of the *)
(* one started last: once all invocations have completed and the one       *)
(* started last succeeded, the city is that invocation's location.         *)
(***************************************************************************)
AllLoadsDone == \A i \in 1..Len(loads) : loads[i].pc \in {"ok", "failed"}

C2_LatestStartedWins ==
  loads # <<>> /\ AllLoadsDone /\ loads[Len(loads)].pc = "ok" =>
    /\ city # None
    /\ city[1].name = loads[Len(loads)].name
    /\ city[1].lat = loads[Len(loads)].lat
    /\ city[1].lon = loads[Len(loads)].lon

(***************************************************************************)
(* C3: an invocation of load whose forecast or air-quality fetch fails     *)
(* never changes the city (not when it starts, not when its forecast       *)
(* arrives, not when it fails); its failing step sets the error message    *)
(* to the generic text and loading to false, and no other step sets that   *)
(* message.                                                                *)
(***************************************************************************)
Fails(id) == loads[id].pc \in {"forecast", "air"} /\ loads'[id].pc = "failed"
Advances(id) == loads[id].pc = "forecast" /\ loads'[id].pc = "air"

C3_FailedLoadKeepsCity ==
  [][/\ \A id \in 1..Len(loads) :
          /\ Fails(id) => city' = city /\ err' = ErrFetch /\ loading' = FALSE
          /\ Advances(id) => city' = city
     /\ Len(loads') > Len(loads) => city' = city
     /\ (err' = ErrFetch /\ err # ErrFetch) => \E id \in 1..Len(loads) : Fails(id)
    ]_vars

\* a city was shown, a later load of another location failed: the city, the
\* message and the loading flag after it
C3_Witness ==
  /\ Len(loads) = 2
  /\ loads[1].pc = "ok" /\ loads[2].pc = "failed"
  /\ loads[1].name # loads[2].name
  /\ city # None /\ city[1].name = loads[1].name
  /\ err = ErrFetch
  /\ ~loading

(***************************************************************************)
(* C4: a load whose forecast body parses but lacks the current, hourly and *)
(* daily objects fails as a whole: it ends with the generic error message  *)
(* set and the city not replaced.                                          *)
(***************************************************************************)
C4_MalformedForecastFails ==
  [][\A id \in 1..Len(loads) :
       loads[id].pc = "air" /\ ~Renderable(loads[id].w[1]) /\ loads'[id].pc # "air"
         => loads'[id].pc = "failed" /\ err' = ErrFetch /\ city' = city]_vars

(***************************************************************************)
(* C11: when the query changes to a value whose trimmed length is below 2, *)
(* the candidate list is set to empty and no geocoding request is issued.  *)
(***************************************************************************)
C11_ShortQueryClears ==
  [][query' # query /\ Len(Trim(query')) < 2
       => sugs' = <<>> /\ Len(reqs') = Len(reqs)]_vars

\* candidates were shown for a first query, then "a " was typed: two
\* characters, one when trimmed
C11_Witness ==
  /\ query = <<97, 32>>
  /\ Len(reqs) = 1 /\ reqs[1].st = "applied"
  /\ sugs = <<>>

(***************************************************************************)
(* C12: useMyLocation without the geolocation capability sets the 'not     *)
(* available' message at once, starts no position request and leaves       *)
(* loading as it is; with the capability it starts a position request and  *)
(* sets loading.  The error callback of a position request (denial, or the *)
(* time-out) sets the 'permission denied' message and loading to false;    *)
(* the success callback starts a load of the returned coordinates under    *)
(* the name "My Location".                                                 *)
(***************************************************************************)
StepIs(what) == last' # None /\ last'[1] = what

C12_UseMyLocation ==
  [][/\ StepIs("useMyLocation") /\ ~last'[2]
          => err' = ErrGeoNA /\ geo' = geo /\ loading' = loading /\ loads' = loads
     /\ StepIs("useMyLocation") /\ last'[2]
          => geo' = geo + 1 /\ loading' /\ loads' = loads
     /\ StepIs("geoError")
          => geo' = geo - 1 /\ err' = ErrDenied /\ ~loading' /\ loads' = loads
     /\ StepIs("geoSuccess")
          => /\ geo' = geo - 1
             /\ Len(loads') = Len(loads) + 1
             /\ loads'[Len(loads')] =
                  NewLoad(MyLocation, last'[2][1], last'[2][2])
    ]_vars

\* a position request that failed while a load of a favorite had a city shown
C12_Witness ==
  /\ last = <<"geoError">>
  /\ err = ErrDenied
  /\ ~loading
  /\ geo = 0
  /\ city # None

(***************************************************************************)
(* C13: in a session whose writes succeed, after the first render and      *)
(* after every addFav and removeFav the item stored under the favorites    *)
(* key is the serialization of the favorites in memory, and it parses back *)
(* to that list; a restart that reads it starts with exactly that list, in *)
(* the same order.                                                         *)
(***************************************************************************)
C13_StoredIsCurrent ==
  /\ [](canWrite =>
          /\ stored = Some(Stringify(fav))
          /\ Parse(stored[1]).ok
          /\ Parse(stored[1]).val = fav)
  /\ [][canWrite /\ StepIs("start") /\ last'[2] => fav' = fav]_vars

\* the default favorite was removed and a location added, and a restart read
\* the list back
C13_Witness ==
  /\ last = <<"start", TRUE, Some(Stringify(<<FreshGeo(1)>>))>>
  /\ fav = <<FreshGeo(1)>>
  /\ nRemoves = 1

(***************************************************************************)
(* C14: a session that starts while the read of the favorites key fails,   *)
(* the key is absent, or the stored text is malformed (it does not parse,  *)
(* or it parses to something that is not a list of locations) starts with  *)
(* the default single-entry list and without an error message.             *)
(***************************************************************************)
IsLocation(e) == DOMAIN e = {"name", "latitude", "longitude"}

Malformed(text) ==
  \/ ~Parse(text).ok
  \/ \E i \in 1..Len(Parse(text).val) : ~IsLocation(Parse(text).val[i])

C14_BadStorageFallsBack ==
  last # None /\ last[1] = "start"
    /\ (~last[2] \/ last[3] = None \/ Malformed(last[3][1]))
    => fav = <<DEFAULT_CITIES[1]>> /\ err = ""

(***************************************************************************)
(* C15: removeFav(name) leaves the entries whose name differs from name,   *)
(* compared exactly (an entry that differs in letter case stays), in their *)
(* order, and removes every entry of that name; for a name that no entry   *)
(* has, what it leaves is the list itself.                                 *)
(***************************************************************************)
C15_RemovesExactName ==
  /\ [](\A n \in {MyLocation} \cup {ToLowerCase(fav[i].name) : i \in 1..Len(fav)} :
          (\A j \in 1..Len(fav) : fav[j].name # n) => Without(fav, n) = fav)
  /\ [][RemoveFavRan =>
          fav' = Select(fav, {i \in 1..Len(fav) : fav[i].name # last'[2].name})]_vars

\* of three stored entries two are named Kathmandu and one kathmandu; the x of
\* a Kathmandu was clicked
C15_Witness ==
  /\ last # None /\ last[1] = "removeFav"
  /\ last[2].name = Kathmandu
  /\ fav = <<Twins[2]>>

(***************************************************************************)
(* C16: every invocation of load issues the forecast request and the       *)
(* air-quality request independently of each other: the air-quality        *)
(* request is issued whether or not the forecast request has settled or    *)
(* succeeded, so every invocation that has started has issued it.          *)
(***************************************************************************)
C16_BothRequestsIssued ==
  \A id \in 1..Len(loads) : loads[id].air

(***************************************************************************)
(* C17: a search request that has been superseded (the query changed, it   *)
(* became shorter than 2 trimmed characters, or a suggestion was picked)   *)
(* never sets the candidate list: the list changes only when the query     *)
(* changes or when the response to the request of the current query, of at *)
(* least 2 trimmed characters, is applied.  So while the query is short,   *)
(* as after a pick, the list is empty.                                     *)
(***************************************************************************)
Applies(id) == reqs[id].st # "applied" /\ reqs'[id].st = "applied"

C17_SupersededNeverApplies ==
  /\ [](Len(Trim(query)) < 2 => sugs = <<>>)
  /\ [][/\ \A id \in 1..Len(reqs) :
             Applies(id) => /\ ~reqs[id].aborted
                            /\ reqs[id].query = query
                            /\ Len(Trim(query)) >= 2
        /\ sugs' # sugs =>
             query' # query \/ \E id \in 1..Len(reqs) : Applies(id)
       ]_vars

\* a suggestion of the first query was picked while the request of the second
\* query was in flight
C17_Witness ==
  /\ Len(reqs) = 2
  /\ reqs[1].st = "applied" /\ reqs[2].st = "aborted"
  /\ Len(loads) = 1
  /\ query = <<>> /\ sugs = <<>>

(***************************************************************************)
(* C18: in every state in which an invocation of load is in flight,        *)
(* loading is true, also when loads overlap with each other or with a      *)
(* position request.                                                       *)
(***************************************************************************)
InFlight(id) == loads[id].pc \in {"forecast", "air"}

C18_LoadingWhileInFlight ==
  (\E id \in 1..Len(loads) : InFlight(id)) => loading

C20_NoTwoSameName ==
  /\ [](NoTwoSameName(fav))
  /\ [][RemoveFavRan => Len(fav') >= Len(fav) - 1]_vars

\* two locations were added to the default list, and one favorite removed
C20_Witness ==
  /\ last # None /\ last[1] = "removeFav"
  /\ nFresh = 2
  /\ Len(fav) = 2
  /\ city # None /\ ToLowerCase(city[1].name) = ToLowerCase(last[2].name)

====
